---- MODULE Spec2Model ----
(***************************************************************************)
(* A model of the "analise" command of starter-go-cli: one run of          *)
(* analiseCmd.Run, from flag/environment resolution through the            *)
(* segmentation call, the per-segment translation calls and the final      *)
(* fmt.Println of the marshalled results.                                  *)
(*                                                                         *)
(* Go strings that carry JSON text are modelled as sequences of JSON       *)
(* tokens, and encoding/json's Unmarshal as a parser over those tokens.    *)
(* A Go slice is a record [nil, elems]: a nil slice and an empty non-nil   *)
(* slice are different values, as json.Marshal tells them apart.           *)
(***************************************************************************)
EXTENDS Integers, Sequences, FiniteSets

\* ------------------------------------------------------------------ bounds
\* Longest segmentation array the endpoint returns in the model.
MaxSegs == 2
\* Every token sequence up to this length is a possible "response" text.
MaxShort == 2

\* ------------------------------------------------------- program constants
StatusOK == 200
DefaultHost == "http://localhost:11434/api/generate"
DefaultLang == "en-US"
ModelName == "llama3"

\* ------------------------------------------------------------- input sets
\* "" is the unset flag / unset environment variable.
FlagHosts == {"", "http://flag"}
EnvHosts == {"", "http://env"}
FlagLangs == {"", "pt-BR"}
EnvLangs == {"", "de-DE"}
Texts == {"Hallo Welt"}
ArgCounts == {0, 1, 2}
Statuses == {StatusOK, 500}

\* ------------------------------------------------------------ JSON tokens
Tok(k, s) == [k |-> k, s |-> s]
LBracket == Tok("[", "")
RBracket == Tok("]", "")
Comma == Tok(",", "")
LBrace == Tok("{", "")
RBrace == Tok("}", "")
JNull == Tok("null", "")
JNum == Tok("num", "7")
JStr(c) == Tok("str", c)
\* Bare prose: not a JSON token at all.
Word(c) == Tok("word", c)

StrContents == {"a", "b"}
Elems == {JStr(c) : c \in StrContents} \cup {JNull, JNum}
Alphabet == Elems \cup {LBracket, RBracket, Comma, LBrace, RBrace, Word("x")}

\* The text  [ e1 , e2 , ... , en ]
ArrayText(es) ==
    [i \in 1..(2 * Len(es) + 1) |->
        IF i = 1 THEN LBracket
        ELSE IF i = 2 * Len(es) + 1 THEN RBracket
        ELSE IF i % 2 = 0 THEN es[i \div 2]
        ELSE Comma]

\* What the endpoint may put in the "response" field of a segmentation reply.
SegTexts ==
    (UNION {[1..n -> Alphabet] : n \in 0..MaxShort})
    \cup {ArrayText(es) : es \in UNION {[1..n -> Elems] : n \in 1..MaxSegs}}

\* What the endpoint may put in the "response" field of a translation reply.
TransTexts == {<<>>, <<Word("A")>>, <<Word("B")>>}

\* ------------------------------------------------------------- Go slices
NilSlice == [nil |-> TRUE, elems |-> <<>>]
MakeSlice(es) == [nil |-> FALSE, elems |-> es]
\* Mutant: the new item goes to the front.
GoPrepend(sl, x) == [nil |-> FALSE, elems |-> <<x>> \o sl.elems]
GoAppend(sl, x) == [nil |-> FALSE, elems |-> Append(sl.elems, x)]

\* ---------------------------------------------------- encoding/json model
RECURSIVE ValueEnd(_, _)
RECURSIVE ElemsEnd(_, _)
\* The index after the JSON value that starts at t[i], or 0 when there is none
\* (the scanner of json.checkValid).
ValueEnd(t, i) ==
    IF i > Len(t) THEN 0
    ELSE IF t[i].k \in {"null", "num", "str"} THEN i + 1
    ELSE IF t[i].k = "{" THEN
        IF i + 1 <= Len(t) /\ t[i + 1].k = "}" THEN i + 2 ELSE 0
    ELSE IF t[i].k = "[" THEN
        IF i + 1 <= Len(t) /\ t[i + 1].k = "]" THEN i + 2 ELSE ElemsEnd(t, i + 1)
    ELSE 0

ElemsEnd(t, i) ==
    LET e == ValueEnd(t, i) IN
    IF e = 0 \/ e > Len(t) THEN 0
    ELSE IF t[e].k = "," THEN ElemsEnd(t, e + 1)
    ELSE IF t[e].k = "]" THEN e + 1
    ELSE 0

\* json.checkValid: the whole text is exactly one JSON value.
ValidJSON(t) == ValueEnd(t, 1) = Len(t) + 1

RECURSIVE DecodeElems(_, _, _)
\* decodeState.array into a []string: walks the elements starting at t[i].
\* A string element is stored, a null element leaves the zero value "", any
\* other element leaves "" and records an UnmarshalTypeError.
DecodeElems(t, i, acc) ==
    IF t[i].k = "]" THEN acc
    ELSE
        LET e == ValueEnd(t, i)
            val == IF t[i].k = "str" THEN t[i].s ELSE ""
            bad == acc.bad \/ t[i].k \notin {"str", "null"}
            nxt == [bad |-> bad, elems |-> Append(acc.elems, val)]
        IN IF t[e].k = "," THEN DecodeElems(t, e + 1, nxt) ELSE nxt

\* json.Unmarshal(data, &sections) with sections a nil []string.
UnmarshalStrings(t) ==
    IF ~ValidJSON(t) THEN [err |-> "syntax", val |-> NilSlice]
    ELSE IF t[1].k = "null" THEN [err |-> "none", val |-> NilSlice]
    ELSE IF t[1].k = "[" THEN
        LET d == DecodeElems(t, 2, [bad |-> FALSE, elems |-> <<>>]) IN
        [err |-> IF d.bad THEN "type" ELSE "none", val |-> MakeSlice(d.elems)]
    ELSE [err |-> "type", val |-> NilSlice]

\* An HTTP response body, by its JSON shape; for an object, what its
\* "response" member is, and for a string member, the Go string it holds.
EnvBody(shape, field, value) == [shape |-> shape, field |-> field, value |-> value]
EnvBodies(texts) ==
    {EnvBody("invalid", "absent", <<>>), EnvBody("null", "absent", <<>>),
     EnvBody("array", "absent", <<>>), EnvBody("object", "absent", <<>>),
     EnvBody("object", "null", <<>>), EnvBody("object", "number", <<>>)}
    \cup {EnvBody("object", "string", t) : t \in texts}

\* json.Unmarshal(body, &responsePayload), responsePayload a zero struct
\* with one string field tagged "response".
UnmarshalEnvelope(b) ==
    IF b.shape = "invalid" THEN [err |-> "syntax", response |-> <<>>]
    ELSE IF b.shape = "null" THEN [err |-> "none", response |-> <<>>]
    ELSE IF b.shape = "array" THEN [err |-> "type", response |-> <<>>]
    ELSE IF b.field \in {"absent", "null"} THEN [err |-> "none", response |-> <<>>]
    ELSE IF b.field = "number" THEN [err |-> "type", response |-> <<>>]
    ELSE [err |-> "none", response |-> b.value]

\* json.MarshalIndent of a []ResultItem: a nil slice marshals to null.
MarshalIndent(sl) ==
    IF sl.nil THEN [kind |-> "null", items |-> <<>>]
    ELSE [kind |-> "array", items |-> sl.elems]

\* ---------------------------------------------------------------- state
VARIABLES
    nargs,                \* number of positional arguments given
    text,                 \* args[0]
    flagHost,             \* --llm-host ("" when not given)
    envHost,              \* STARTER_GO_CLI_LLM_HOST ("" when unset)
    flagLang,             \* --translation-language
    envLang,              \* STARTER_GO_CLI_TRANSLATION_LANGUAGE
    pc,                   \* where the run is
    llmHost,              \* local llmHost of Run
    translationLanguage,  \* local translationLanguage of Run
    calls,                \* every http.Post of the run, in issue order
    deferred,             \* the defer stack of Run: indices into calls
    sections,             \* local sections of Run
    idx,                  \* position of the range loop over sections (1-based)
    results,              \* local results of Run
    stdout,               \* everything written to standard output, in order
    exitCode,             \* -1 while running, then the process's exit status
    run,                  \* 1 for the first invocation, 2 for the repeated one
    prev,                 \* what the first invocation was observed to do
    memo                  \* what the endpoint has answered, per request

vars == <<nargs, text, flagHost, envHost, flagLang, envLang, pc, llmHost,
          translationLanguage, calls, deferred, sections, idx, results,
          stdout, exitCode, run, prev, memo>>

\* The command line and the environment of the invocation.
given == <<nargs, text, flagHost, envHost, flagLang, envLang>>

\* Everything outside the run that no step of Run changes.
inputs == <<nargs, text, flagHost, envHost, flagLang, envLang, run, prev, memo>>

Running == 0 - 1

\* ------------------------------------------------------------- helpers
NoDoc == [kind |-> "none", items |-> <<>>]
\* One write to standard output.
Line(kind, msg, code, doc) == [kind |-> kind, msg |-> msg, code |-> code, doc |-> doc]
Info(msg) == Line("info", msg, 0, NoDoc)
ErrorLine(msg, code) == Line("error", msg, code, NoDoc)
JsonLine(doc) == Line("json", "", 0, doc)

\* fmt.Sprintf of the segmentation template.
SegmentationPrompt(t) == [tmpl |-> "segment", lang |-> "", arg |-> t]
\* fmt.Sprintf of the translation template.
TranslationPrompt(lang, section) == [tmpl |-> "translate", lang |-> lang, arg |-> section]

NoReply == [status |-> 0, readOK |-> FALSE, body |-> EnvBody("none", "absent", <<>>)]
Replies(texts) == [status : Statuses, readOK : BOOLEAN, body : EnvBodies(texts)]

\* Mutant: the request asks for a streamed reply.
NewCallStreaming(stage, index, url, prompt) ==
    [stage |-> stage, index |-> index, url |-> url,
     model |-> ModelName, prompt |-> prompt, stream |-> TRUE,
     phase |-> "inflight", reply |-> NoReply,
     bodyState |-> "none", decoded |-> FALSE]

\* One http.Post: the request as sent, and what became of it.
NewCall(stage, index, url, prompt) ==
    [stage |-> stage, index |-> index, url |-> url,
     model |-> ModelName, prompt |-> prompt, stream |-> FALSE,
     phase |-> "inflight", reply |-> NoReply,
     bodyState |-> "none", decoded |-> FALSE]

ResultItem(source, translation) == [source |-> source, translation |-> translation]

\* Mutant: the environment variable wins over the flag.
ResolveDefaultEnvFirst(flag, env, literal) ==
    IF env # "" THEN env
    ELSE IF flag # "" THEN flag
    ELSE literal

\* flag, else environment variable, else literal.
ResolveDefault(flag, env, literal) ==
    IF flag # "" THEN flag
    ELSE IF env # "" THEN env
    ELSE literal

\* The fmt.Println that announces the literal default.
DefaultNotice(flag, env, msg) ==
    IF flag = "" /\ env = "" THEN <<Info(msg)>> ELSE <<>>

\* Mutant: the status check is missing.
SegOutcomeNoStatusCheck(r) ==
    IF ~r.readOK THEN "read"
    ELSE IF UnmarshalEnvelope(r.body).err # "none" THEN "envelope"
    ELSE IF UnmarshalStrings(UnmarshalEnvelope(r.body).response).err # "none" THEN "array"
    ELSE "ok"

\* What Run does with the segmentation response, in the order of its checks.
SegOutcome(r) ==
    IF ~r.readOK THEN "read"
    ELSE IF r.status # StatusOK THEN "status"
    ELSE IF UnmarshalEnvelope(r.body).err # "none" THEN "envelope"
    ELSE IF UnmarshalStrings(UnmarshalEnvelope(r.body).response).err # "none" THEN "array"
    ELSE "ok"

\* What Run does with a translation response, in the order of its checks.
TransOutcome(r) ==
    IF ~r.readOK THEN "read"
    ELSE IF r.status # StatusOK THEN "status"
    ELSE IF UnmarshalEnvelope(r.body).err # "none" THEN "envelope"
    ELSE "ok"

\* Mutant: the items built so far are printed before the diagnostic.
FatalFlushingResults(msg, code) ==
    /\ stdout' = stdout \o <<JsonLine(MarshalIndent(results)), ErrorLine(msg, code)>>
    /\ exitCode' = 1
    /\ pc' = "Failed"

\* fmt.Println(diagnostic); os.Exit(1). os.Exit runs no deferred call.
Fatal(msg, code) ==
    /\ stdout' = Append(stdout, ErrorLine(msg, code))
    /\ exitCode' = 1
    /\ pc' = "Failed"

\* Returning from Run runs the deferred Body.Close calls.
RunDeferred(cs, ds) ==
    [i \in 1..Len(cs) |->
        IF \E j \in 1..Len(ds) : ds[j] = i
        THEN [cs[i] EXCEPT !.bodyState = "closed"]
        ELSE cs[i]]

\* The request of a call as it goes over the wire.
RequestOf(c) == [url |-> c.url, model |-> c.model, prompt |-> c.prompt, stream |-> c.stream]
RequestsOf(cs) == [k \in 1..Len(cs) |-> RequestOf(cs[k])]

\* Nothing observed yet.
NoPrev == [requests |-> <<>>, pc |-> "Idle", stdout |-> <<>>, exitCode |-> Running]

\* Everything an endpoint can do with one request.
Outcomes(texts) ==
    {[kind |-> "transportError", reply |-> NoReply]}
    \cup {[kind |-> "returned", reply |-> r] : r \in Replies(texts)}

\* A deterministic endpoint: a request it has answered before gets the same
\* answer again; a new request gets any answer.
Answers(req, texts) ==
    LET known == {m \in memo : m.req = req} IN
    IF known = {} THEN Outcomes(texts) ELSE {m.out : m \in known}

Last == Len(calls)

\* ------------------------------------------------------------------ Init
Init ==
    /\ nargs \in ArgCounts
    /\ text \in Texts
    /\ flagHost \in FlagHosts
    /\ envHost \in EnvHosts
    /\ flagLang \in FlagLangs
    /\ envLang \in EnvLangs
    /\ pc = "Idle"
    /\ llmHost = ""
    /\ translationLanguage = ""
    /\ calls = <<>>
    /\ deferred = <<>>
    /\ sections = NilSlice
    /\ idx = 1
    /\ results = NilSlice
    /\ stdout = <<>>
    /\ exitCode = Running
    /\ run = 1
    /\ prev = NoPrev
    /\ memo = {}

\* --------------------------------------------------------------- actions
\* cobra.ExactArgs(1) rejects the command line: rootCmd.Execute returns an
\* error and Execute exits 1 without entering Run.
ArgsError ==
    /\ pc = "Idle"
    /\ nargs # 1
    /\ pc' = "Failed"
    /\ exitCode' = 1
    /\ UNCHANGED <<inputs, llmHost, translationLanguage, calls, deferred,
                   sections, idx, results, stdout>>

\* Lines 46-72: both three-tier lookups, with their notices.
Resolve ==
    /\ pc = "Idle"
    /\ nargs = 1
    /\ llmHost' = ResolveDefault(flagHost, envHost, DefaultHost)
    /\ translationLanguage' = ResolveDefault(flagLang, envLang, DefaultLang)
    /\ stdout' = stdout
                 \o DefaultNotice(flagHost, envHost, "Using default Ollama host:")
                 \o DefaultNotice(flagLang, envLang, "Using default translation language:")
    /\ pc' = "Resolved"
    /\ UNCHANGED <<inputs, calls, deferred, sections, idx, results, exitCode>>

\* Lines 74-88: build the segmentation request and post it.
PostSegmentation ==
    /\ pc = "Resolved"
    /\ calls' = Append(calls, NewCall("segmentation", 0, llmHost, SegmentationPrompt(text)))
    /\ pc' = "SegWait"
    /\ UNCHANGED <<inputs, llmHost, translationLanguage, deferred, sections,
                   idx, results, stdout, exitCode>>

\* Lines 89-92: http.Post returned an error.
SegTransportError ==
    /\ pc = "SegWait"
    /\ calls' = [calls EXCEPT ![Last].phase = "transportError"]
    /\ Fatal("Error making HTTP request:", 0)
    /\ UNCHANGED <<inputs, llmHost, translationLanguage, deferred, sections,
                   idx, results>>

\* Lines 88, 93: http.Post returned a response; its Close is deferred.
SegReturn ==
    /\ pc = "SegWait"
    /\ \E r \in Replies(SegTexts) :
        calls' = [calls EXCEPT ![Last].phase = "returned",
                               ![Last].reply = r,
                               ![Last].bodyState = "open"]
    /\ deferred' = Append(deferred, Last)
    /\ pc' = "SegResp"
    /\ UNCHANGED <<inputs, llmHost, translationLanguage, sections, idx,
                   results, stdout, exitCode>>

\* Lines 95-99: ioutil.ReadAll failed.
SegReadError ==
    /\ pc = "SegResp"
    /\ SegOutcome(calls[Last].reply) = "read"
    /\ Fatal("Error reading response body:", 0)
    /\ UNCHANGED <<inputs, llmHost, translationLanguage, calls, deferred,
                   sections, idx, results>>

\* Lines 101-104: the status is not 200.
SegStatusError ==
    /\ pc = "SegResp"
    /\ SegOutcome(calls[Last].reply) = "status"
    /\ Fatal("Error: received status code", calls[Last].reply.status)
    /\ UNCHANGED <<inputs, llmHost, translationLanguage, calls, deferred,
                   sections, idx, results>>

\* Lines 106-111: the body does not unmarshal into ResponsePayload.
SegEnvelopeError ==
    /\ pc = "SegResp"
    /\ SegOutcome(calls[Last].reply) = "envelope"
    /\ calls' = [calls EXCEPT ![Last].decoded = TRUE]
    /\ Fatal("Error parsing JSON response:", 0)
    /\ UNCHANGED <<inputs, llmHost, translationLanguage, deferred, sections,
                   idx, results>>

\* Lines 113-118: the response field does not unmarshal into []string.
SegArrayError ==
    /\ pc = "SegResp"
    /\ SegOutcome(calls[Last].reply) = "array"
    /\ calls' = [calls EXCEPT ![Last].decoded = TRUE]
    /\ sections' = UnmarshalStrings(UnmarshalEnvelope(calls[Last].reply.body).response).val
    /\ Fatal("Error parsing response array:", 0)
    /\ UNCHANGED <<inputs, llmHost, translationLanguage, deferred, idx, results>>

\* Mutant: the range loop starts at the second segment.
SegParsedSkippingFirst ==
    /\ pc = "SegResp"
    /\ SegOutcome(calls[Last].reply) = "ok"
    /\ calls' = [calls EXCEPT ![Last].decoded = TRUE]
    /\ sections' = UnmarshalStrings(UnmarshalEnvelope(calls[Last].reply.body).response).val
    /\ results' = NilSlice
    /\ idx' = 2
    /\ pc' = "Loop"
    /\ UNCHANGED <<inputs, llmHost, translationLanguage, deferred, stdout, exitCode>>

\* Lines 95-120: the segment list is parsed; results starts as a nil slice.
SegParsed ==
    /\ pc = "SegResp"
    /\ SegOutcome(calls[Last].reply) = "ok"
    /\ calls' = [calls EXCEPT ![Last].decoded = TRUE]
    /\ sections' = UnmarshalStrings(UnmarshalEnvelope(calls[Last].reply.body).response).val
    /\ results' = NilSlice
    /\ idx' = 1
    /\ pc' = "Loop"
    /\ UNCHANGED <<inputs, llmHost, translationLanguage, deferred, stdout, exitCode>>

\* Mutant: the request for the next segment is posted without waiting for
\* the reply to this one.
PostTranslationFanOut ==
    /\ pc = "Loop"
    /\ idx <= Len(sections.elems)
    /\ calls' = calls
                \o <<NewCall("translation", idx, llmHost,
                             TranslationPrompt(translationLanguage, sections.elems[idx]))>>
                \o (IF idx + 1 <= Len(sections.elems)
                    THEN <<NewCall("translation", idx + 1, llmHost,
                                   TranslationPrompt(translationLanguage,
                                                     sections.elems[idx + 1]))>>
                    ELSE <<>>)
    /\ pc' = "TransWait"
    /\ UNCHANGED <<inputs, llmHost, translationLanguage, deferred, sections,
                   idx, results, stdout, exitCode>>

\* Lines 122-136: the loop body builds the request for sections[idx] and posts it.
PostTranslation ==
    /\ pc = "Loop"
    /\ idx <= Len(sections.elems)
    /\ calls' = Append(calls,
                       NewCall("translation", idx, llmHost,
                               TranslationPrompt(translationLanguage, sections.elems[idx])))
    /\ pc' = "TransWait"
    /\ UNCHANGED <<inputs, llmHost, translationLanguage, deferred, sections,
                   idx, results, stdout, exitCode>>

\* Mutant: a transport error sends the loop back to post the same segment.
TransTransportRetry ==
    /\ pc = "TransWait"
    /\ calls' = [calls EXCEPT ![Last].phase = "transportError"]
    /\ pc' = "Loop"
    /\ UNCHANGED <<inputs, llmHost, translationLanguage, deferred, sections,
                   idx, results, stdout, exitCode>>

\* Lines 137-140: http.Post returned an error.
TransTransportError ==
    /\ pc = "TransWait"
    /\ calls' = [calls EXCEPT ![Last].phase = "transportError"]
    /\ Fatal("Error making HTTP request for translation:", 0)
    /\ UNCHANGED <<inputs, llmHost, translationLanguage, deferred, sections,
                   idx, results>>

\* Lines 136, 141: http.Post returned a response; its Close is deferred to
\* the return of Run, not to the end of the iteration.
TransReturn ==
    /\ pc = "TransWait"
    /\ \E r \in Replies(TransTexts) :
        calls' = [calls EXCEPT ![Last].phase = "returned",
                               ![Last].reply = r,
                               ![Last].bodyState = "open"]
    /\ deferred' = Append(deferred, Last)
    /\ pc' = "TransResp"
    /\ UNCHANGED <<inputs, llmHost, translationLanguage, sections, idx,
                   results, stdout, exitCode>>

\* Lines 143-147: ioutil.ReadAll failed.
TransReadError ==
    /\ pc = "TransResp"
    /\ TransOutcome(calls[Last].reply) = "read"
    /\ Fatal("Error reading translation response body:", 0)
    /\ UNCHANGED <<inputs, llmHost, translationLanguage, calls, deferred,
                   sections, idx, results>>

\* Lines 149-152: the status is not 200.
TransStatusError ==
    /\ pc = "TransResp"
    /\ TransOutcome(calls[Last].reply) = "status"
    /\ Fatal("Error: received status code for translation", calls[Last].reply.status)
    /\ UNCHANGED <<inputs, llmHost, translationLanguage, calls, deferred,
                   sections, idx, results>>

\* Lines 154-159: the body does not unmarshal into TranslationResponse.
TransEnvelopeError ==
    /\ pc = "TransResp"
    /\ TransOutcome(calls[Last].reply) = "envelope"
    /\ calls' = [calls EXCEPT ![Last].decoded = TRUE]
    /\ Fatal("Error parsing translation JSON response:", 0)
    /\ UNCHANGED <<inputs, llmHost, translationLanguage, deferred, sections,
                   idx, results>>

\* Lines 143-166: the translation is appended and the loop moves on.
TransAppend ==
    /\ pc = "TransResp"
    /\ TransOutcome(calls[Last].reply) = "ok"
    /\ calls' = [calls EXCEPT ![Last].decoded = TRUE]
    /\ results' = GoAppend(results,
                           ResultItem(sections.elems[idx],
                                      UnmarshalEnvelope(calls[Last].reply.body).response))
    /\ idx' = idx + 1
    /\ pc' = "Loop"
    /\ UNCHANGED <<inputs, llmHost, translationLanguage, deferred, sections,
                   stdout, exitCode>>

\* Mutant: the items are printed in an arbitrary order, as if collected in
\* a map.
FinishAnyOrder ==
    /\ pc = "Loop"
    /\ idx > Len(sections.elems)
    /\ \E f \in [1..Len(results.elems) -> 1..Len(results.elems)] :
          /\ \A i, j \in 1..Len(results.elems) : f[i] = f[j] => i = j
          /\ stdout' = Append(stdout,
                              JsonLine(MarshalIndent(
                                  [results EXCEPT
                                      !.elems = [i \in 1..Len(results.elems) |->
                                                    results.elems[f[i]]]])))
    /\ calls' = RunDeferred(calls, deferred)
    /\ deferred' = <<>>
    /\ exitCode' = 0
    /\ pc' = "Done"
    /\ UNCHANGED <<inputs, llmHost, translationLanguage, sections, idx, results>>

\* Lines 168-175: the loop is over; marshal, print, return (the deferred
\* closes run), and the process exits 0.
Finish ==
    /\ pc = "Loop"
    /\ idx > Len(sections.elems)
    /\ stdout' = Append(stdout, JsonLine(MarshalIndent(results)))
    /\ calls' = RunDeferred(calls, deferred)
    /\ deferred' = <<>>
    /\ exitCode' = 0
    /\ pc' = "Done"
    /\ UNCHANGED <<inputs, llmHost, translationLanguage, sections, idx, results>>

Next ==
    \/ ArgsError
    \/ Resolve
    \/ PostSegmentation
    \/ SegTransportError
    \/ SegReturn
    \/ SegReadError
    \/ SegStatusError
    \/ SegEnvelopeError
    \/ SegArrayError
    \/ SegParsed
    \/ PostTranslation
    \/ TransTransportError
    \/ TransReturn
    \/ TransReadError
    \/ TransStatusError
    \/ TransEnvelopeError
    \/ TransAppend
    \/ Finish

Spec == Init /\ [][Next]_vars

\* The run is a single thread that always takes its next step, and every
\* http.Post eventually returns a response or an error.
\* The environment variables are left unset here: control flow does not
\* depend on which tier a value came from.
FairInit == Init /\ envHost = "" /\ envLang = ""
FairSpec == FairInit /\ [][Next]_vars /\ WF_vars(Next)

\* ------------------------------------------- two runs, one fixed endpoint
\* The same command line is run twice against a deterministic endpoint.
\* The Det actions are the http.Post outcomes of the run with the endpoint's
\* answer drawn from Answers and remembered in memo.

\* Lines 89-92 against the deterministic endpoint.
DetSegTransportError ==
    /\ pc = "SegWait"
    /\ \E o \in Answers(RequestOf(calls[Last]), SegTexts) :
          /\ o.kind = "transportError"
          /\ memo' = memo \cup {[req |-> RequestOf(calls[Last]), out |-> o]}
    /\ calls' = [calls EXCEPT ![Last].phase = "transportError"]
    /\ Fatal("Error making HTTP request:", 0)
    /\ UNCHANGED <<given, run, prev, llmHost, translationLanguage, deferred,
                   sections, idx, results>>

\* Lines 88, 93 against the deterministic endpoint.
DetSegReturn ==
    /\ pc = "SegWait"
    /\ \E o \in Answers(RequestOf(calls[Last]), SegTexts) :
          /\ o.kind = "returned"
          /\ memo' = memo \cup {[req |-> RequestOf(calls[Last]), out |-> o]}
          /\ calls' = [calls EXCEPT ![Last].phase = "returned",
                                    ![Last].reply = o.reply,
                                    ![Last].bodyState = "open"]
    /\ deferred' = Append(deferred, Last)
    /\ pc' = "SegResp"
    /\ UNCHANGED <<given, run, prev, llmHost, translationLanguage, sections,
                   idx, results, stdout, exitCode>>

\* Lines 137-140 against the deterministic endpoint.
DetTransTransportError ==
    /\ pc = "TransWait"
    /\ \E o \in Answers(RequestOf(calls[Last]), TransTexts) :
          /\ o.kind = "transportError"
          /\ memo' = memo \cup {[req |-> RequestOf(calls[Last]), out |-> o]}
    /\ calls' = [calls EXCEPT ![Last].phase = "transportError"]
    /\ Fatal("Error making HTTP request for translation:", 0)
    /\ UNCHANGED <<given, run, prev, llmHost, translationLanguage, deferred,
                   sections, idx, results>>

\* Lines 136, 141 against the deterministic endpoint.
DetTransReturn ==
    /\ pc = "TransWait"
    /\ \E o \in Answers(RequestOf(calls[Last]), TransTexts) :
          /\ o.kind = "returned"
          /\ memo' = memo \cup {[req |-> RequestOf(calls[Last]), out |-> o]}
          /\ calls' = [calls EXCEPT ![Last].phase = "returned",
                                    ![Last].reply = o.reply,
                                    ![Last].bodyState = "open"]
    /\ deferred' = Append(deferred, Last)
    /\ pc' = "TransResp"
    /\ UNCHANGED <<given, run, prev, llmHost, translationLanguage, sections,
                   idx, results, stdout, exitCode>>

\* The first process has ended; the same command line is executed again, in
\* a fresh process, against the same endpoint.
Restart ==
    /\ pc \in {"Done", "Failed"}
    /\ run = 1
    /\ run' = 2
    /\ prev' = [requests |-> RequestsOf(calls), pc |-> pc, stdout |-> stdout,
                exitCode |-> exitCode]
    /\ pc' = "Idle"
    /\ llmHost' = ""
    /\ translationLanguage' = ""
    /\ calls' = <<>>
    /\ deferred' = <<>>
    /\ sections' = NilSlice
    /\ idx' = 1
    /\ results' = NilSlice
    /\ stdout' = <<>>
    /\ exitCode' = Running
    /\ UNCHANGED <<given, memo>>

PairInit == Init /\ nargs = 1 /\ envHost = "" /\ envLang = ""

PairNext ==
    \/ Resolve
    \/ PostSegmentation
    \/ DetSegTransportError
    \/ DetSegReturn
    \/ SegReadError
    \/ SegStatusError
    \/ SegEnvelopeError
    \/ SegArrayError
    \/ SegParsed
    \/ PostTranslation
    \/ DetTransTransportError
    \/ DetTransReturn
    \/ TransReadError
    \/ TransStatusError
    \/ TransEnvelopeError
    \/ TransAppend
    \/ Finish
    \/ Restart

PairSpec == PairInit /\ [][PairNext]_vars

\* ================================================================ claims
IsJson(l) == l.kind = "json"
\* The result documents written to standard output so far.
JsonLines == SelectSeq(stdout, IsJson)
\* The segment list the segmentation stage parsed out of the first reply.
ParsedSegments == UnmarshalStrings(UnmarshalEnvelope(calls[1].reply.body).response).val.elems
\* The text the i-th translation call returned.
ReturnedTranslation(i) == UnmarshalEnvelope(calls[i + 1].reply.body).response
LastLine == stdout[Len(stdout)]

\* A generation call that failed: transport error, body read failure,
\* non-200 status or undecodable body (for the segmentation call, the inner
\* array too).
CallFailed(c) ==
    \/ c.phase = "transportError"
    \/ /\ c.phase = "returned"
       /\ \/ ~c.reply.readOK
          \/ c.reply.status # 200
          \/ UnmarshalEnvelope(c.reply.body).err # "none"
          \/ /\ c.stage = "segmentation"
             /\ UnmarshalStrings(UnmarshalEnvelope(c.reply.body).response).err # "none"

\* The text is a JSON array whose elements are all strings.
IsStringArray(t) ==
    /\ Len(t) >= 2
    /\ t[1].k = "["
    /\ t[Len(t)].k = "]"
    /\ \/ Len(t) = 2
       \/ /\ Len(t) % 2 = 1
          /\ \A i \in 2..(Len(t) - 1) :
                IF i % 2 = 0 THEN t[i].k = "str" ELSE t[i].k = ","

\* C1: a run that ends in success has emitted exactly one document whose
\* items are, in order, {source: s[i], translation: t[i]} for the parsed
\* segment list s and the i-th translation reply t[i]: same length, same
\* order, nothing skipped, duplicated or reordered.
C1_ResultsFollowSegments ==
    pc = "Done" =>
        /\ Len(JsonLines) = 1
        /\ Len(JsonLines[1].doc.items) = Len(ParsedSegments)
        /\ Len(calls) = Len(ParsedSegments) + 1
        /\ \A i \in 1..Len(ParsedSegments) :
              JsonLines[1].doc.items[i]
                 = [source |-> ParsedSegments[i], translation |-> ReturnedTranslation(i)]

C1_Witness ==
    /\ pc = "Done"
    /\ Len(ParsedSegments) >= 2
    /\ ParsedSegments[1] # ParsedSegments[2]
    /\ ReturnedTranslation(1) # ReturnedTranslation(2)
    /\ Len(JsonLines) = 1

\* C2: no partial output: until the run has ended in success nothing on
\* standard output is a result document or carries a result item, so a run
\* that fails, at whatever call, has emitted none of the items it had built.
C2_NoPartialOutput ==
    pc # "Done" =>
        \A i \in 1..Len(stdout) : stdout[i].kind # "json" /\ stdout[i].doc = NoDoc

C2_Witness ==
    /\ pc = "Failed"
    /\ Len(results.elems) >= 1
    /\ Len(calls) >= 3

\* C3: the first failure is terminal and nothing is retried: every call but
\* the last one issued has succeeded, once a call has failed the run is in
\* Failed (or about to report it), and no stage/index is requested twice.
C3_FirstFailureTerminal ==
    /\ \A k \in 1..Len(calls) :
          CallFailed(calls[k]) =>
              /\ k = Len(calls)
              /\ pc \in {"SegResp", "TransResp", "Failed"}
    /\ \A j, k \in 1..Len(calls) :
          (calls[j].stage = calls[k].stage /\ calls[j].index = calls[k].index) => j = k

C3_Witness ==
    /\ pc = "Failed"
    /\ Len(calls) >= 2
    /\ calls[Len(calls)].phase = "transportError"
    /\ Len(sections.elems) > Len(calls) - 1

\* C4: calls are strictly sequential: at most one request is in flight, and
\* it is the last one issued; the first request is the segmentation request;
\* the k-th request after it is the translation of segment k, issued only
\* after every earlier reply was received and decoded and the segment list
\* was parsed.
C4_StrictlySequential ==
    /\ Cardinality({k \in 1..Len(calls) : calls[k].phase = "inflight"}) <= 1
    /\ \A k \in 1..Len(calls) :
          /\ calls[k].phase = "inflight" => k = Len(calls)
          /\ k = 1 => calls[k].stage = "segmentation"
          /\ k > 1 =>
                /\ calls[k].stage = "translation"
                /\ calls[k].index = k - 1
                /\ calls[k - 1].phase = "returned"
                /\ calls[k - 1].decoded
                /\ k - 1 <= Len(ParsedSegments)
                /\ calls[k].prompt.arg = ParsedSegments[k - 1]

C4_Witness ==
    /\ Len(calls) = 3
    /\ calls[3].phase = "inflight"
    /\ calls[2].decoded

\* C5: every response body is closed before the next call is issued and
\* before the process terminates, on every path.
C5_BodiesReleased ==
    /\ \A k \in 1..(Len(calls) - 1) : calls[k].bodyState # "open"
    /\ pc \in {"Done", "Failed"} =>
          \A k \in 1..Len(calls) : calls[k].bodyState # "open"

\* C6: a successful run emits a JSON array with exactly one element per
\* segment, for every segment count n >= 0 (an empty array when n = 0).
C6_EmitsArrayPerSegment ==
    pc = "Done" =>
        /\ Len(JsonLines) = 1
        /\ JsonLines[1].doc.kind = "array"
        /\ Len(JsonLines[1].doc.items) = Len(ParsedSegments)

\* C7: when the response field of the segmentation envelope is not a JSON
\* array of strings, the run fails with the array decode error, issues no
\* translation request and builds no result item.
C7_SegmentListMustBeStringArray ==
    (/\ Len(calls) >= 1
     /\ calls[1].phase = "returned"
     /\ calls[1].reply.readOK
     /\ calls[1].reply.status = 200
     /\ UnmarshalEnvelope(calls[1].reply.body).err = "none"
     /\ ~IsStringArray(UnmarshalEnvelope(calls[1].reply.body).response))
    =>
        /\ pc \in {"SegResp", "Failed"}
        /\ Len(calls) = 1
        /\ results.elems = <<>>
        /\ pc = "Failed" => LastLine.msg = "Error parsing response array:"

\* C8 as stated: a call answered with a status other than 200 ends the run
\* with the upstream-status error, whatever else is true of the response,
\* and its body is never decoded.
C8_NonOkIsStatusError ==
    \A k \in 1..Len(calls) :
        (calls[k].phase = "returned" /\ calls[k].reply.status # 200) =>
            /\ ~calls[k].decoded
            /\ k = Len(calls)
            /\ pc \in {"SegResp", "TransResp", "Failed"}
            /\ pc = "Failed" =>
                  /\ LastLine.kind = "error"
                  /\ LastLine.code = calls[k].reply.status

\* C8, amended: a call answered with a status other than 200 ends the run
\* and its body is never decoded into segments or a translation; the
\* diagnostic is the upstream-status error when the body was read in full,
\* and the body-read error when reading the body failed.
C8_NonOkNeverDecoded ==
    \A k \in 1..Len(calls) :
        (calls[k].phase = "returned" /\ calls[k].reply.status # 200) =>
            /\ ~calls[k].decoded
            /\ k = Len(calls)
            /\ Len(results.elems) < k
            /\ k = 1 => sections = NilSlice
            /\ pc \in {"SegResp", "TransResp", "Failed"}
            /\ pc = "Failed" =>
                  /\ LastLine.kind = "error"
                  /\ IF calls[k].reply.readOK
                     THEN LastLine.code = calls[k].reply.status
                     ELSE LastLine.msg \in {"Error reading response body:",
                                            "Error reading translation response body:"}

C8_Witness ==
    /\ pc = "Failed"
    /\ Len(calls) = 1
    /\ calls[1].reply.status # 200
    /\ calls[1].reply.readOK
    /\ calls[1].reply.body.shape = "object"
    /\ calls[1].reply.body.field = "string"
    /\ IsStringArray(calls[1].reply.body.value)
    /\ Len(calls[1].reply.body.value) > 2

\* C9: on a successful run standard output holds the serialized result list
\* and nothing else, however llm-host and translation-language were resolved.
C9_StdoutIsOnlyTheDocument ==
    pc = "Done" => (Len(stdout) = 1 /\ stdout[1].kind = "json")

\* C10: every call of the run goes to the llm-host flag when non-empty, else
\* STARTER_GO_CLI_LLM_HOST when non-empty, else the literal URL; every
\* translation prompt names the translation-language flag when non-empty,
\* else the environment variable when non-empty, else en-US; and the two
\* resolved values are the same at every point of the run after resolution.
C10_ThreeTierLookup ==
    LET host == IF flagHost # "" THEN flagHost
                ELSE IF envHost # "" THEN envHost
                ELSE "http://localhost:11434/api/generate"
        lang == IF flagLang # "" THEN flagLang
                ELSE IF envLang # "" THEN envLang
                ELSE "en-US"
    IN /\ \A k \in 1..Len(calls) :
             /\ calls[k].url = host
             /\ calls[k].stage = "translation" => calls[k].prompt.lang = lang
       /\ (pc # "Idle" /\ nargs = 1) =>
             (llmHost = host /\ translationLanguage = lang)

C10_Witness ==
    /\ pc = "Done"
    /\ Len(calls) >= 3
    /\ flagHost = ""
    /\ envHost # ""
    /\ flagLang # ""
    /\ envLang # ""

\* C13: one round trip per stage invocation. A run that ends in Done after
\* parsing n segments has issued exactly 1 + n requests: the segmentation
\* request, then one translation request per segment, the i-th carrying
\* segment i and the resolved target language. A run that fails during the
\* translation of segment k (counted from 0) has issued exactly 1 + (k + 1)
\* requests. Every request carries model "llama3" and stream = false.
C13_OneRoundTripPerStage ==
    /\ \A k \in 1..Len(calls) :
          /\ calls[k].model = "llama3"
          /\ calls[k].stream = FALSE
    /\ Len(calls) >= 1 =>
          calls[1].prompt = [tmpl |-> "segment", lang |-> "", arg |-> text]
    /\ pc = "Done" =>
          /\ Len(calls) = 1 + Len(ParsedSegments)
          /\ \A i \in 1..Len(ParsedSegments) :
                calls[i + 1].prompt
                   = [tmpl |-> "translate", lang |-> translationLanguage,
                      arg |-> ParsedSegments[i]]
    /\ (pc = "Failed" /\ Len(calls) >= 1 /\ calls[Len(calls)].stage = "translation") =>
          /\ Len(calls) = 1 + calls[Len(calls)].index
          /\ Len(results.elems) = calls[Len(calls)].index - 1
          /\ CallFailed(calls[Len(calls)])

C13_Witness ==
    /\ pc = "Failed"
    /\ Len(calls) = 3
    /\ calls[3].stage = "translation"
    /\ calls[3].index = 2
    /\ calls[3].reply.status = 500
    /\ calls[3].reply.readOK

\* The states of the per-run state machine, as values.
StIdle == [name |-> "Idle", i |-> 0]
StSegmenting == [name |-> "Segmenting", i |-> 0]
StTranslating(i) == [name |-> "Translating", i |-> i]
StDone == [name |-> "Done", i |-> 0]
StFailed == [name |-> "Failed", i |-> 0]

\* Where the run is in that state machine (segments counted from 0). The
\* loop head belongs to the segment about to be translated; once the loop is
\* over, to the last segment translated (to Segmenting when there was none).
RunState ==
    IF pc \in {"Idle", "Resolved"} THEN StIdle
    ELSE IF pc \in {"SegWait", "SegResp"} THEN StSegmenting
    ELSE IF pc \in {"TransWait", "TransResp"} THEN StTranslating(idx - 1)
    ELSE IF pc = "Loop" THEN
        IF idx <= Len(sections.elems) THEN StTranslating(idx - 1)
        ELSE IF idx = 1 THEN StSegmenting
        ELSE StTranslating(idx - 2)
    ELSE IF pc = "Done" THEN StDone
    ELSE StFailed

\* The transitions of Idle -> Segmenting -> {Failed | Translating(0) -> ...
\* -> Translating(n-1) -> Done} for a run that parses n segments.
Transition(s, t, n) ==
    \/ s = StIdle /\ t = StSegmenting
    \/ s = StSegmenting /\ t = StFailed
    \/ s = StSegmenting /\ t = StTranslating(0) /\ n >= 1
    \/ s = StSegmenting /\ t = StDone /\ n = 0
    \/ s.name = "Translating" /\ t = StTranslating(s.i + 1) /\ s.i + 1 < n
    \/ s.name = "Translating" /\ t = StDone /\ s.i = n - 1
    \/ s.name = "Translating" /\ t = StFailed

\* C12: every run of the pipeline (a command line with its one argument)
\* moves only along Idle -> Segmenting -> {Failed | Translating(0) -> ... ->
\* Translating(n-1) -> Done}, so no state is entered twice and Translating(i)
\* is entered only from Segmenting (i = 0) or Translating(i-1); a terminal
\* state is never left; Done comes with the full result list emitted and
\* exit status 0, Failed with a diagnostic emitted and a non-zero exit
\* status; and, every step and every HTTP call eventually completing, the
\* run eventually reaches Done or Failed.
C12_StateMachine ==
    /\ [][nargs = 1 =>
            \/ RunState' = RunState
            \/ Transition(RunState, RunState', Len(sections'.elems))]_vars
    /\ [][(pc \in {"Done", "Failed"} => pc' = pc)]_vars
    /\ [](pc = "Done" =>
            /\ exitCode = 0
            /\ Len(JsonLines) = 1
            /\ Len(JsonLines[1].doc.items) = Len(sections.elems))
    /\ []((pc = "Failed" /\ nargs = 1) =>
            /\ exitCode > 0
            /\ Len(stdout) >= 1
            /\ LastLine.kind = "error")
    /\ [](pc \notin {"Done", "Failed"} => exitCode = Running)
    /\ <>(pc \in {"Done", "Failed"})

C12_Witness ==
    /\ pc = "Done"
    /\ RunState = StDone
    /\ Len(sections.elems) = 2
    /\ exitCode = 0

\* C11: determinism. When the same command line is run a second time
\* against an endpoint that answers equal requests equally, the second run
\* issues the same requests in the same order as the first, ends in the same
\* terminal state with the same exit status, and on success writes the same
\* result document.
C11_Deterministic ==
    run = 2 =>
        /\ Len(calls) <= Len(prev.requests)
        /\ \A k \in 1..Len(calls) : RequestOf(calls[k]) = prev.requests[k]
        /\ pc \in {"Done", "Failed"} =>
              /\ Len(calls) = Len(prev.requests)
              /\ pc = prev.pc
              /\ exitCode = prev.exitCode
              /\ pc = "Done" => JsonLines = SelectSeq(prev.stdout, IsJson)

C11_Witness ==
    /\ run = 2
    /\ pc = "Done"
    /\ Len(calls) = 3
    /\ results.elems[1].translation # results.elems[2].translation
    /\ Len(JsonLines) = 1

====
